---- MODULE Spec2Model ----
(***************************************************************************)
(* A model of geoai_retail/utils.py: column-name scrubbing, the feature    *)
(* layer URL clean-up of get_dataframe, and the join / rename / fill /     *)
(* normalize pipeline over origin-to-multiple-destination tables.          *)
(*                                                                         *)
(* Strings are sequences of one-character strings, so that slicing,        *)
(* prefix tests, replacement and regular expressions are computed the way  *)
(* the code computes them.                                                 *)
(***************************************************************************)
EXTENDS Integers, Sequences, FiniteSets, TLC

VARIABLES
    column_list,   \* clean_columns: the argument
    cleaned,       \* clean_columns: the returned list
    clean_pc,      \* "input" | "cleaned" | "recleaned"
    in_features,   \* get_dataframe: the argument (a string)
    layer_url,     \* get_dataframe: the url handed to FeatureLayer
    outcome,       \* get_dataframe: "pending" | "queried" | "AttributeError" | ...
    df,            \* the origin-destination table the pipeline works on
    last,          \* the last pipeline call: its arguments and whether it raised
    ncalls         \* number of pipeline calls made so far

vars == <<column_list, cleaned, clean_pc, in_features, layer_url, outcome, df, last, ncalls>>

\* ------------------------------------------------------------------ bounds

MaxNameLen == 2
MaxCols == 2
MaxUrlTail == 6

\* ------------------------------------------------------- generic sequences

Range(s) == {s[i] : i \in 1..Len(s)}

SeqsUpTo(S, n) == UNION {[1..k -> S] : k \in 0..n}

StartsWith(s, p) == Len(s) >= Len(p) /\ SubSeq(s, 1, Len(p)) = p

\* ------------------------------------------------------------ clean_columns

\* the character classes of the patterns in _scrub_col
IsWordChar(c) == c \in {"a", "Z", "7", "_"}
IsSpace(c) == c \in {" ", "\t"}

CleanAlphabet == {"a", "_", " ", "#"}

\* re.sub(r'[^a-zA-Z0-9_\s]', '', column)
RECURSIVE DropSpecial(_)
DropSpecial(s) ==
    IF s = <<>> THEN <<>>
    ELSE IF IsWordChar(Head(s)) \/ IsSpace(Head(s))
         THEN <<Head(s)>> \o DropSpecial(Tail(s))
         ELSE DropSpecial(Tail(s))

\* re.sub(r'\s', '_', no_spc_char)
SpacesToUnderscore(s) == [i \in 1..Len(s) |-> IF IsSpace(s[i]) THEN "_" ELSE s[i]]

\* a faulty variant: the run of underscores is kept
KeepUnderscoreRuns(s) == s

\* re.sub(r'_+', '_', no_spaces)
RECURSIVE CollapseUnderscores(_)
CollapseUnderscores(s) ==
    IF Len(s) < 2 THEN s
    ELSE IF s[1] = "_" /\ s[2] = "_"
         THEN CollapseUnderscores(Tail(s))
         ELSE <<Head(s)>> \o CollapseUnderscores(Tail(s))

scrub_col(column) == CollapseUnderscores(SpacesToUnderscore(DropSpecial(column)))

clean_columns(cols) == [i \in 1..Len(cols) |-> scrub_col(cols[i])]

\* ------------------------------------------------------------ get_dataframe

Digits == {"0", "1", "2", "3", "4", "5", "6", "7", "8", "9"}

http == <<"h", "t", "t", "p">>
http_scheme == http \o <<":", "/", "/">>
https_scheme == http \o <<"s", ":", "/", "/">>

UrlAlphabet == {"s", "/", "0", "?"}
UrlPrefixes == {http, http_scheme, https_scheme}

NoMatch == [found |-> FALSE, g1 |-> <<>>, g2 |-> <<>>, g3 |-> <<>>]

\* ^https?:// : the number of characters the anchored scheme takes, 0 when it fails
SchemeLen(s) ==
    IF StartsWith(s, https_scheme) THEN Len(https_scheme)
    ELSE IF StartsWith(s, http_scheme) THEN Len(http_scheme)
    ELSE 0

\* (/\d{1,3})?\? tried right after position e: greedy, so three digits first, then
\* two, one, and last the empty alternative. The length group 3 takes, or -1.
IndexThenQuery(s, e, n) ==
    /\ e + n + 2 <= Len(s)
    /\ s[e + 1] = "/"
    /\ \A i \in (e + 2)..(e + n + 1) : s[i] \in Digits
    /\ s[e + n + 2] = "?"

Group3At(s, e) ==
    IF IndexThenQuery(s, e, 3) THEN 4
    ELSE IF IndexThenQuery(s, e, 2) THEN 3
    ELSE IF IndexThenQuery(s, e, 1) THEN 2
    ELSE IF e + 1 <= Len(s) /\ s[e + 1] = "?" THEN 0
    ELSE -1

\* .*? : lazy, so the shortest group 2 (ending at e) that lets the rest match
RECURSIVE LazyFrom(_, _)
LazyFrom(s, e) ==
    IF e > Len(s) THEN NoMatch
    ELSE IF Group3At(s, e) >= 0
         THEN [found |-> TRUE,
               g1 |-> SubSeq(s, 1, e + Group3At(s, e)),
               g2 |-> SubSeq(s, 1, e),
               g3 |-> SubSeq(s, e + 1, e + Group3At(s, e))]
         ELSE LazyFrom(s, e + 1)

\* re.compile(r'((^https?://.*?)(/\d{1,3})?)\?').search(in_features)
regex_search(s) == IF SchemeLen(s) = 0 THEN NoMatch ELSE LazyFrom(s, SchemeLen(s))

\* the branch of get_dataframe taken by a string that starts with 'http' (and does
\* not name an existing .csv file): the url queried, or the exception raised by
\* srch.group on None
get_dataframe(s) ==
    LET srch == regex_search(s) IN
    IF ~srch.found THEN [outcome |-> "AttributeError", url |-> <<>>]
    ELSE IF srch.g3 # <<>> THEN [outcome |-> "queried", url |-> srch.g1]
    ELSE [outcome |-> "queried", url |-> srch.g2 \o <<"/", "0">>]

\* ------------------------------------------------------------------ values

\* A cell of a table. Numbers are reduced fractions n/d (d >= 1), so that an int
\* and the float of the same value are one value, as in Python; a string is the
\* decimal numeral of n, or the empty string (d = 0).
NumVal(n, d) == [k |-> "num", n |-> n, d |-> d]
IntVal(n) == NumVal(n, 1)
StrVal(n) == [k |-> "str", n |-> n, d |-> 1]
EmptyStr == [k |-> "str", n |-> 0, d |-> 0]
NaN == [k |-> "nan", n |-> 0, d |-> 1]
Inf(sign) == [k |-> "inf", n |-> sign, d |-> 0]
None == [k |-> "None", n |-> 0, d |-> 1]

IsNull(v) == v.k = "nan"

\* Series.dtype of a column (given by its cells): object when it holds strings
Dtype(cells) ==
    IF \E i \in 1..Len(cells) : cells[i].k = "str" THEN "O"
    ELSE IF \A i \in 1..Len(cells) : cells[i].k = "num" /\ cells[i].d = 1 THEN "int64"
    ELSE "float64"

\* one cell under Series.astype(t): int('2') = 2, str(2) = '2', and astype(object)
\* keeps every cell the Python object it was
AsType(v, t) ==
    IF t = "O" THEN v
    ELSE IF t = "str" THEN (IF v.k = "num" /\ v.d = 1 THEN StrVal(v.n) ELSE v)
    ELSE IF v.k = "str" /\ v.d = 1 THEN IntVal(v.n)
    ELSE v

\* ------------------------------------------------------------------ tables

\* A DataFrame: its column names in order (pandas allows a name twice) and its
\* rows, each a sequence of cells aligned with the columns.
Table(columns, rows) == [columns |-> columns, rows |-> rows]

HasCol(t, name) == \E i \in 1..Len(t.columns) : t.columns[i] = name
ColIdxs(t, name) == {i \in 1..Len(t.columns) : t.columns[i] = name}
ColIdx(t, name) == CHOOSE i \in ColIdxs(t, name) : \A j \in ColIdxs(t, name) : i <= j
Column(t, name) == [r \in 1..Len(t.rows) |-> t.rows[r][ColIdx(t, name)]]

\* df[name] = df[name].astype(t)
AsTypeColumn(t, name, dtype) ==
    Table(t.columns,
          [r \in 1..Len(t.rows) |->
              [c \in 1..Len(t.columns) |->
                  IF t.columns[c] = name THEN AsType(t.rows[r][c], dtype)
                  ELSE t.rows[r][c]]])

\* df.set_index(keys)[fld]: the series as (index key, value) entries in row order
IndexedSeries(t, keys, fld) ==
    [r \in 1..Len(t.rows) |->
        [key |-> [j \in 1..Len(keys) |-> t.rows[r][ColIdx(t, keys[j])]],
         val |-> t.rows[r][ColIdx(t, fld)]]]

\* the rows of a left join: every left row once per matching entry of the series,
\* in the order of the series, and once with NaN when no entry matches
RECURSIVE JoinRows(_, _, _)
JoinRows(rows, on, srs) ==
    IF rows = <<>> THEN <<>>
    ELSE LET r == Head(rows)
             key == [j \in 1..Len(on) |-> r[on[j]]]
             hits == SelectSeq(srs, LAMBDA e : e.key = key)
         IN (IF hits = <<>> THEN <<Append(r, NaN)>>
             ELSE [i \in 1..Len(hits) |-> Append(r, hits[i].val)])
            \o JoinRows(Tail(rows), on, srs)

\* a faulty variant: an inner join, which loses the rows that find no match
RECURSIVE InnerJoinRows(_, _, _)
InnerJoinRows(rows, on, srs) ==
    IF rows = <<>> THEN <<>>
    ELSE LET r == Head(rows)
             key == [j \in 1..Len(on) |-> r[on[j]]]
             hits == SelectSeq(srs, LAMBDA e : e.key = key)
         IN [i \in 1..Len(hits) |-> Append(r, hits[i].val)]
            \o InnerJoinRows(Tail(rows), on, srs)

\* DataFrame.join(series, on=on), a left join; the caller has checked that the
\* name of the series is not a column already (pandas raises on the overlap).
\* Keys match when they are equal as Python objects: 2 and '2' do not.
LeftJoin(rows, on, srs) == JoinRows(rows, on, srs)

Join(t, srs, name, on) ==
    Table(Append(t.columns, name),
          LeftJoin(t.rows, [j \in 1..Len(on) |-> ColIdx(t, on[j])], srs))

\* df.columns = [new if col == old else col for col in df.columns]
Rename(t, old, new) ==
    Table([c \in 1..Len(t.columns) |-> IF t.columns[c] = old THEN new ELSE t.columns[c]],
          t.rows)

\* df[name].fillna(value, inplace=True), as the pandas the module was written for
\* (before 1.0: get_dataframe deletes df.index.name) does it: the nulls of the
\* column are filled in the table itself
FillNa(t, name, value) ==
    Table(t.columns,
          [r \in 1..Len(t.rows) |->
              [c \in 1..Len(t.columns) |->
                  IF t.columns[c] = name /\ IsNull(t.rows[r][c]) THEN value
                  ELSE t.rows[r][c]]])

\* a faulty variant: "if fill_na_value:" instead of "is not None", which skips 0 and ''
FillGivenTruthy(value) == value # None /\ value # IntVal(0) /\ value # EmptyStr

\* fill_na_value is not None
FillGiven(value) == value # None

\* ------------------------------------------------------------- column names

origin_id == <<"o", "r", "i", "g", "i", "n", "_", "i", "d">>
destination_id == <<"d", "e", "s", "t", "i", "n", "a", "t", "i", "o", "n", "_", "i", "d">>
destination_id_ == destination_id \o <<"_">>
destination_id_01 == destination_id_ \o <<"0", "1">>
destination_id_02 == destination_id_ \o <<"0", "2">>
destination_id_1 == destination_id_ \o <<"1">>

\* a faulty variant: the last two characters, which loses the underscore
LastTwo(s) == SubSeq(s, Len(s) - 1, Len(s))

\* dest_fld[-3:]
LastThree(s) == SubSeq(s, IF Len(s) > 3 THEN Len(s) - 2 ELSE 1, Len(s))

\* [col for col in parent_df.columns if col.startswith('destination_id_')]
DestFldLst(t) == SelectSeq(t.columns, LAMBDA col : StartsWith(col, destination_id_))

Raised(t) == [ok |-> FALSE, df |-> t]
Returned(t) == [ok |-> TRUE, df |-> t]

\* ------------------------------------------------ add_metric_by_origin_dest

\* out_metric_fld = f'{join_metric_fld}{dest_fld[-3:]}'
OutMetricFld(join_metric_fld, dest_fld) == join_metric_fld \o LastThree(dest_fld)

\* "for dest_fld in dest_fld_lst": join, rename, fill, from combined_df on. The
\* join raises when the table already has a column named like the series.
RECURSIVE OriginDestLoop(_, _, _, _, _)
OriginDestLoop(combined_df, dest_fld_lst, srs, join_metric_fld, fill_na_value) ==
    IF dest_fld_lst = <<>> THEN Returned(combined_df)
    ELSE IF HasCol(combined_df, join_metric_fld) THEN Raised(combined_df)
    ELSE LET dest_fld == Head(dest_fld_lst)
             out_metric_fld == OutMetricFld(join_metric_fld, dest_fld)
             joined == Join(combined_df, srs, join_metric_fld, <<origin_id, dest_fld>>)
             renamed == Rename(joined, join_metric_fld, out_metric_fld)
             filled == IF FillGiven(fill_na_value)
                       THEN FillNa(renamed, out_metric_fld, fill_na_value)
                       ELSE renamed
         IN OriginDestLoop(filled, Tail(dest_fld_lst), srs, join_metric_fld, fill_na_value)

\* join_df as the call leaves it: both key columns are assigned back, converted
\* to the dtypes of parent_df['origin_id'] and parent_df['destination_id_01']
OriginDestAligned(parent_df, join_df) ==
    AsTypeColumn(
        AsTypeColumn(join_df, origin_id, Dtype(Column(parent_df, origin_id))),
        destination_id, Dtype(Column(parent_df, destination_id_01)))

\* the value returned (or that the call raised), and join_df as the call leaves it
add_metric_by_origin_dest(parent_df, join_df, join_metric_fld, fill_na_value) ==
    IF ~HasCol(parent_df, origin_id) \/ ~HasCol(parent_df, destination_id_01)
    THEN [ok |-> FALSE, df |-> parent_df, join_df |-> join_df]
    ELSE LET aligned == OriginDestAligned(parent_df, join_df)
             join_df_idx == IndexedSeries(aligned, <<origin_id, destination_id>>,
                                          join_metric_fld)
             res == OriginDestLoop(parent_df, DestFldLst(parent_df), join_df_idx,
                                   join_metric_fld, fill_na_value)
         IN [ok |-> res.ok, df |-> res.df, join_df |-> aligned]

\* ------------------------------------------------------- add_metric_by_dest

\* str when parent_df['origin_id'] is of object dtype, else that dtype
ConvertDtype(parent_df) ==
    IF Dtype(Column(parent_df, origin_id)) = "O" THEN "str"
    ELSE Dtype(Column(parent_df, origin_id))

\* a faulty variant: the join keyed by the origin, as the docstring of join_id_fld has it
DestJoinOnOrigin(dest_fld) == <<origin_id>>

\* combined_df.join(..., on=dest_fld)
DestJoinOn(dest_fld) == <<dest_fld>>

\* "for dest_fld in dest_fld_lst" with get_dummies=False
RECURSIVE DestLoop(_, _, _, _, _)
DestLoop(combined_df, dest_fld_lst, srs, join_metric_fld, fill_na_value) ==
    IF dest_fld_lst = <<>> THEN Returned(combined_df)
    ELSE IF HasCol(combined_df, join_metric_fld) THEN Raised(combined_df)
    ELSE LET dest_fld == Head(dest_fld_lst)
             out_metric_fld == OutMetricFld(join_metric_fld, dest_fld)
             joined == Join(combined_df, srs, join_metric_fld, DestJoinOn(dest_fld))
             renamed == Rename(joined, join_metric_fld, out_metric_fld)
             filled == IF FillGiven(fill_na_value)
                       THEN FillNa(renamed, out_metric_fld, fill_na_value)
                       ELSE renamed
         IN DestLoop(filled, Tail(dest_fld_lst), srs, join_metric_fld, fill_na_value)

\* get_dummies is False throughout: the dummies branch is not modelled
add_metric_by_dest(parent_df, join_df, join_id_fld, join_metric_fld, fill_na_value) ==
    IF ~HasCol(parent_df, origin_id)
    THEN [ok |-> FALSE, df |-> parent_df, join_df |-> join_df]
    ELSE LET aligned == AsTypeColumn(join_df, join_id_fld, ConvertDtype(parent_df))
             join_df_idx == IndexedSeries(aligned, <<join_id_fld>>, join_metric_fld)
             res == DestLoop(parent_df, DestFldLst(parent_df), join_df_idx,
                             join_metric_fld, fill_na_value)
         IN [ok |-> res.ok, df |-> res.df, join_df |-> aligned]

\* ------------------------------ add_normalized_columns_to_closest_dataframe

\* str.replace(old, new): every non-overlapping occurrence, left to right
RECURSIVE Replace(_, _, _)
Replace(s, old, new) ==
    IF Len(s) < Len(old) \/ s = <<>> THEN s
    ELSE IF StartsWith(s, old)
         THEN new \o Replace(SubSeq(s, Len(old) + 1, Len(s)), old, new)
         ELSE <<Head(s)>> \o Replace(Tail(s), old, new)

RECURSIVE Gcd(_, _)
Gcd(a, b) == IF b = 0 THEN a ELSE Gcd(b, a % b)

Abs(n) == IF n < 0 THEN -n ELSE n

Fraction(n, d) ==
    LET g == Gcd(Abs(n), Abs(d)) IN
    IF d < 0 THEN NumVal((-n) \div g, (-d) \div g) ELSE NumVal(n \div g, d \div g)

\* one cell of series / series in floating point: NaN propagates, 0/0 is NaN,
\* x/0 is plus or minus infinity
Divide(a, b) ==
    IF IsNull(a) \/ IsNull(b) THEN NaN
    ELSE IF b.n = 0 THEN (IF a.n = 0 THEN NaN ELSE Inf(IF a.n > 0 THEN 1 ELSE -1))
    ELSE Fraction(a.n * b.d, a.d * b.n)

\* a faulty variant: only plus infinity is replaced
ZeroIfPlusInf(val) == IF val = Inf(1) THEN IntVal(0) ELSE val

\* lambda val: 0 if val == np.inf or val == -np.inf else val
ZeroIfInf(val) == IF val = Inf(1) \/ val = Inf(-1) THEN IntVal(0) ELSE val

\* a faulty variant: the column is always added at the end, also when the name exists
AppendColumn(t, name, cells) ==
    Table(Append(t.columns, name),
          [r \in 1..Len(t.rows) |-> Append(t.rows[r], cells[r])])

\* df[name] = cells: the column of that name is overwritten, a new name is added
SetColumn(t, name, cells) ==
    IF HasCol(t, name)
    THEN Table(t.columns,
               [r \in 1..Len(t.rows) |->
                   [c \in 1..Len(t.columns) |->
                       IF t.columns[c] = name THEN cells[r] ELSE t.rows[r][c]]])
    ELSE Table(Append(t.columns, name),
               [r \in 1..Len(t.rows) |-> Append(t.rows[r], cells[r])])

\* df.drop(columns=names, inplace=True)
DropColumns(t, names) ==
    LET keep == SelectSeq([c \in 1..Len(t.columns) |-> c],
                          LAMBDA c : t.columns[c] \notin names)
    IN Table([i \in 1..Len(keep) |-> t.columns[keep[i]]],
             [r \in 1..Len(t.rows) |-> [i \in 1..Len(keep) |-> t.rows[r][keep[i]]]])

\* "for gross_fld in gross_factor_fld_lst": divide, fill, replace infinities.
\* The division raises on a string cell, and on a name the table holds twice
\* (df[name] is then a frame, not a series).
RECURSIVE NormalizeLoop(_, _, _, _, _, _)
NormalizeLoop(normalize_df, gross_factor_fld_lst, closest_factor_fld_root, normalize_fld, output_normalize_field_name, fill_na) ==
    IF gross_factor_fld_lst = <<>> THEN Returned(normalize_df)
    ELSE LET gross_fld == Head(gross_factor_fld_lst)
             normalized_fld == Replace(gross_fld, closest_factor_fld_root,
                                       output_normalize_field_name)
             numerator == Column(normalize_df, gross_fld)
             denominator == Column(normalize_df, normalize_fld)
         IN IF \/ Cardinality(ColIdxs(normalize_df, gross_fld)) # 1
               \/ Cardinality(ColIdxs(normalize_df, normalize_fld)) # 1
               \/ Cardinality(ColIdxs(normalize_df, normalized_fld)) > 1
               \/ \E r \in 1..Len(numerator) :
                      numerator[r].k = "str" \/ denominator[r].k = "str"
            THEN Raised(normalize_df)
            ELSE LET quotient == [r \in 1..Len(numerator) |->
                                     Divide(numerator[r], denominator[r])]
                     assigned == SetColumn(normalize_df, normalized_fld, quotient)
                     filled == IF FillGiven(fill_na)
                               THEN FillNa(assigned, normalized_fld, fill_na)
                               ELSE assigned
                     applied == SetColumn(filled, normalized_fld,
                                    [r \in 1..Len(filled.rows) |->
                                        ZeroIfInf(Column(filled, normalized_fld)[r])])
                 IN NormalizeLoop(applied, Tail(gross_factor_fld_lst),
                                  closest_factor_fld_root, normalize_fld,
                                  output_normalize_field_name, fill_na)

add_normalized_columns_to_closest_dataframe(closest_df, closest_factor_fld_root, normalize_df, normalize_id_fld, normalize_fld, output_normalize_field_name, fill_na, drop_original_columns) ==
    LET aligned == AsTypeColumn(normalize_df, normalize_id_fld, ConvertDtype(closest_df))
        normalize_srs == IndexedSeries(aligned, <<normalize_id_fld>>, normalize_fld)
    IN IF ~HasCol(closest_df, origin_id) \/ HasCol(closest_df, normalize_fld)
       THEN [ok |-> FALSE, df |-> closest_df, join_df |-> aligned]
       ELSE LET joined == Join(closest_df, normalize_srs, normalize_fld, <<origin_id>>)
                gross_factor_fld_lst ==
                    SelectSeq(joined.columns,
                              LAMBDA col : StartsWith(col, closest_factor_fld_root))
                looped == NormalizeLoop(joined, gross_factor_fld_lst,
                                        closest_factor_fld_root, normalize_fld,
                                        output_normalize_field_name, fill_na)
                dropped == IF drop_original_columns
                           THEN DropColumns(looped.df, Range(gross_factor_fld_lst))
                           ELSE looped.df
            IN IF ~looped.ok \/ ~HasCol(dropped, normalize_fld)
               THEN [ok |-> FALSE, df |-> closest_df, join_df |-> aligned]
               ELSE [ok |-> TRUE, df |-> DropColumns(dropped, {normalize_fld}),
                     join_df |-> aligned]

\* ------------------------------------------------------------ the arguments

MaxJoinRows == 2
MaxCalls == 2

m == <<"m">>
k == <<"k">>
n == <<"n">>
h == <<"h">>
mh == <<"m", "h">>
id == <<"i", "d">>
m_01 == m \o <<"_", "0", "1">>
m_02 == m \o <<"_", "0", "2">>

\* an id as a cell of a column of the given dtype: the int, or its numeral
IdCell(dtype, i) == IF dtype = "O" THEN StrVal(i) ELSE IntVal(i)

IdDtypes == {"int64", "O"}

\* Origin-destination tables as the proximity functions make them: one row per
\* origin, two destination slots, and (factors) two columns of a metric added
\* before. One schema numbers its second slot without the leading zero.
ParentTable(dest_flds, origin_dtype, dest_dtype, factors) ==
    Table(<<origin_id>> \o dest_flds \o (IF factors THEN <<m_01, m_02>> ELSE <<>>),
          << <<IdCell(origin_dtype, 1), IdCell(dest_dtype, 1), IdCell(dest_dtype, 2)>>
                \o (IF factors THEN <<IntVal(1), IntVal(-1)>> ELSE <<>>),
             <<IdCell(origin_dtype, 2), IdCell(dest_dtype, 2), IdCell(dest_dtype, 1)>>
                \o (IF factors THEN <<IntVal(0), NaN>> ELSE <<>>) >>)

DestSchemas == {<<destination_id_01, destination_id_02>>, <<destination_id_01, destination_id_1>>}

ParentTables ==
    {ParentTable(s, o, d, f) : s \in DestSchemas, o \in IdDtypes, d \in IdDtypes, f \in BOOLEAN}

SeqParentTables == {ParentTable(s, "int64", "int64", FALSE) : s \in DestSchemas}

\* rows (origin_id, destination_id, metric): a key twice, a null metric, an
\* origin that no parent row has
OriginDestRows(dtype) ==
    {<<IdCell(dtype, 1), IdCell(dtype, 1), IntVal(1)>>,
     <<IdCell(dtype, 1), IdCell(dtype, 1), IntVal(-1)>>,
     <<IdCell(dtype, 1), IdCell(dtype, 2), NaN>>,
     <<IdCell(dtype, 2), IdCell(dtype, 2), IntVal(1)>>,
     <<IdCell(dtype, 3), IdCell(dtype, 1), IntVal(1)>>}

\* rows (join_id_fld, metric)
DestRows(dtype) ==
    {<<IdCell(dtype, 1), IntVal(1)>>,
     <<IdCell(dtype, 1), IntVal(-1)>>,
     <<IdCell(dtype, 2), NaN>>,
     <<IdCell(dtype, 3), IntVal(1)>>}

\* rows (normalize_id_fld, normalize_fld)
NormalizeRows(dtype) ==
    {<<IdCell(dtype, i), v>> : i \in {1, 2}, v \in {IntVal(2), IntVal(0), NaN}}

Fills == {None, IntVal(0), EmptyStr}

OriginDestArgs ==
    {[join_df |-> Table(<<origin_id, destination_id, fld>>, rows), fld |-> fld, fill |-> fill] :
        rows \in UNION {SeqsUpTo(OriginDestRows(t), MaxJoinRows) : t \in IdDtypes},
        fld \in {m, k}, fill \in Fills}

DestArgs ==
    {[join_df |-> Table(<<id, fld>>, rows), fld |-> fld, fill |-> fill] :
        rows \in UNION {SeqsUpTo(DestRows(t), MaxJoinRows) : t \in IdDtypes},
        fld \in {m, k}, fill \in Fills}

NormalizeArgs ==
    {[join_df |-> Table(<<id, fld>>, rows), fld |-> fld, fill |-> fill, drop |-> drop] :
        rows \in UNION {SeqsUpTo(NormalizeRows(t), MaxJoinRows) : t \in IdDtypes},
        fld \in {h, mh}, fill \in {None, IntVal(0)}, drop \in BOOLEAN}

\* the arguments of the calls of a sequence: the second tables have one row or none
SeqOriginDestArgs ==
    {[join_df |-> Table(<<origin_id, destination_id, fld>>, rows), fld |-> fld, fill |-> fill] :
        rows \in {<<>>, << <<IntVal(1), IntVal(1), IntVal(1)>> >>},
        fld \in {m, k}, fill \in {None, IntVal(0)}}

SeqDestArgs ==
    {[join_df |-> Table(<<id, fld>>, rows), fld |-> fld, fill |-> fill] :
        rows \in {<<>>, << <<IntVal(2), IntVal(1)>> >>},
        fld \in {m, k}, fill \in {None, IntVal(0)}}

SeqNormalizeArgs ==
    {[join_df |-> Table(<<id, fld>>, rows), fld |-> fld, fill |-> fill, drop |-> drop] :
        rows \in {<<>>, << <<IntVal(1), IntVal(2)>> >>},
        fld \in {h, mh}, fill \in {None, IntVal(0)}, drop \in BOOLEAN}

\* --------------------------------------------------------------- the machine

NoTable == Table(<<>>, <<>>)

NoCall ==
    [op |-> "none", ok |-> TRUE, parent_df |-> NoTable, join_in |-> NoTable,
     join_df |-> NoTable, fld |-> <<>>, norm_fld |-> <<>>, fill |-> None, drop |-> FALSE]

CleanIdle == column_list = <<>> /\ cleaned = <<>> /\ clean_pc = "input"
UrlIdle == in_features = <<>> /\ layer_url = <<>> /\ outcome = "pending"
PipelineIdle == df = NoTable /\ last = NoCall /\ ncalls = 0

\* a call of add_metric_by_origin_dest on the table, which the result replaces
AddMetricByOriginDest(more, Args) ==
    /\ more
    /\ \E a \in Args :
          LET res == add_metric_by_origin_dest(df, a.join_df, a.fld, a.fill) IN
          /\ df' = IF res.ok THEN res.df ELSE df
          /\ last' = [op |-> "origin_dest", ok |-> res.ok, parent_df |-> df,
                      join_in |-> a.join_df, join_df |-> res.join_df, fld |-> a.fld,
                      norm_fld |-> <<>>, fill |-> a.fill, drop |-> FALSE]
    /\ ncalls' = ncalls + 1
    /\ UNCHANGED <<column_list, cleaned, clean_pc, in_features, layer_url, outcome>>

\* a call of add_metric_by_dest(df, join_df, 'id', fld, False, fill)
AddMetricByDest(more, Args) ==
    /\ more
    /\ \E a \in Args :
          LET res == add_metric_by_dest(df, a.join_df, id, a.fld, a.fill) IN
          /\ df' = IF res.ok THEN res.df ELSE df
          /\ last' = [op |-> "dest", ok |-> res.ok, parent_df |-> df,
                      join_in |-> a.join_df, join_df |-> res.join_df, fld |-> a.fld,
                      norm_fld |-> <<>>, fill |-> a.fill, drop |-> FALSE]
    /\ ncalls' = ncalls + 1
    /\ UNCHANGED <<column_list, cleaned, clean_pc, in_features, layer_url, outcome>>

\* a call of add_normalized_columns_to_closest_dataframe(df, 'm', normalize_df,
\* 'id', fld, 'n', fill, drop)
AddNormalizedColumns(more, Args) ==
    /\ more
    /\ \E a \in Args :
          LET res == add_normalized_columns_to_closest_dataframe(
                         df, m, a.join_df, id, a.fld, n, a.fill, a.drop) IN
          /\ df' = IF res.ok THEN res.df ELSE df
          /\ last' = [op |-> "normalize", ok |-> res.ok, parent_df |-> df,
                      join_in |-> a.join_df, join_df |-> res.join_df, fld |-> m,
                      norm_fld |-> a.fld, fill |-> a.fill, drop |-> a.drop]
    /\ ncalls' = ncalls + 1
    /\ UNCHANGED <<column_list, cleaned, clean_pc, in_features, layer_url, outcome>>

\* one call on a table
Init == CleanIdle /\ UrlIdle /\ df \in ParentTables /\ last = NoCall /\ ncalls = 0

Next ==
    \/ AddMetricByOriginDest(ncalls = 0, OriginDestArgs)
    \/ AddMetricByDest(ncalls = 0, DestArgs)
    \/ AddNormalizedColumns(ncalls = 0, NormalizeArgs)

Spec == Init /\ [][Next]_vars

\* a sequence of calls, each on the result of the one before
InitSeq == CleanIdle /\ UrlIdle /\ df \in SeqParentTables /\ last = NoCall /\ ncalls = 0

NextSeq ==
    \/ AddMetricByOriginDest(ncalls < MaxCalls, SeqOriginDestArgs)
    \/ AddMetricByDest(ncalls < MaxCalls, SeqDestArgs)
    \/ AddNormalizedColumns(ncalls < MaxCalls, SeqNormalizeArgs)

SpecSeq == InitSeq /\ [][NextSeq]_vars

\* clean_columns on a list of names, and again on what it returned
InitClean ==
    /\ column_list \in SeqsUpTo(SeqsUpTo(CleanAlphabet, MaxNameLen), MaxCols)
    /\ cleaned = <<>> /\ clean_pc = "input"
    /\ UrlIdle /\ PipelineIdle

CleanColumns ==
    /\ clean_pc = "input"
    /\ cleaned' = clean_columns(column_list)
    /\ clean_pc' = "cleaned"
    /\ UNCHANGED <<column_list, in_features, layer_url, outcome, df, last, ncalls>>

CleanAgain ==
    /\ clean_pc = "cleaned"
    /\ column_list' = cleaned
    /\ cleaned' = clean_columns(cleaned)
    /\ clean_pc' = "recleaned"
    /\ UNCHANGED <<in_features, layer_url, outcome, df, last, ncalls>>

NextClean == CleanColumns \/ CleanAgain

SpecClean == InitClean /\ [][NextClean]_vars

\* get_dataframe on a string that starts with 'http'
InitUrl ==
    /\ in_features \in {p \o t : p \in UrlPrefixes, t \in SeqsUpTo(UrlAlphabet, MaxUrlTail)}
    /\ layer_url = <<>> /\ outcome = "pending"
    /\ CleanIdle /\ PipelineIdle

GetDataframe ==
    /\ outcome = "pending"
    /\ outcome' = get_dataframe(in_features).outcome
    /\ layer_url' = get_dataframe(in_features).url
    /\ UNCHANGED <<column_list, cleaned, clean_pc, in_features, df, last, ncalls>>

NextUrl == GetDataframe

SpecUrl == InitUrl /\ [][NextUrl]_vars

\* ================================================================== claims

IsNameChar(c) == c \in {"a", "Z", "7", "_"}
AlphaNumerics(s) == SelectSeq(s, LAMBDA c : c \in {"a", "Z", "7"})
ValidName(s) ==
    /\ \A i \in 1..Len(s) : IsNameChar(s[i])
    /\ \A i \in 1..(Len(s) - 1) : ~(s[i] = "_" /\ s[i + 1] = "_")

\* C5: clean_columns returns a list of the same length and order as its input
\* (each name keeps the letters and digits of the name at its place), every
\* returned name holds only ASCII letters, digits and underscores with no two
\* underscores in a row, and cleaning the returned list again returns it unchanged.
C5_CleanColumnsFixedPoint ==
    /\ clean_pc = "cleaned" =>
          /\ Len(cleaned) = Len(column_list)
          /\ \A i \in 1..Len(cleaned) :
                /\ ValidName(cleaned[i])
                /\ AlphaNumerics(cleaned[i]) = AlphaNumerics(column_list[i])
    /\ clean_pc = "recleaned" => cleaned = column_list

\* a two-name list whose first name lost a special character and had a space and
\* an underscore merged, cleaned twice
C5_Witness ==
    /\ clean_pc = "recleaned"
    /\ Len(cleaned) = 2
    /\ cleaned[1] = <<"a", "_">>
    /\ cleaned[2] = <<"_", "a">>

\* the url ends in '/' and one to three digits, the '/' not being of the scheme
EndsInLayerIndex(url) ==
    \E d \in 1..3 :
        /\ Len(url) - d > SchemeLen(url)
        /\ url[Len(url) - d] = "/"
        /\ \A i \in (Len(url) - d + 1)..Len(url) : url[i] \in Digits

\* the url cut before its first '?'
BeforeQuery(s) ==
    IF "?" \in Range(s)
    THEN SubSeq(s, 1, (CHOOSE i \in 1..Len(s) : s[i] = "?" /\ \A j \in 1..(i - 1) : s[j] # "?") - 1)
    ELSE s

\* C4: get_dataframe on any http:// or https:// url, with or without a '?' query
\* part, does not fail before the query, and queries a url without parameters that ends in a layer index:
\* the submitted url up to its '?' when that ends in a layer index, and else
\* that with '/0' appended.
C4_EveryHttpUrlQueried ==
    (outcome # "pending" /\ SchemeLen(in_features) > 0) =>
        /\ outcome = "queried"
        /\ "?" \notin Range(layer_url)
        /\ EndsInLayerIndex(layer_url)
        /\ layer_url = IF EndsInLayerIndex(BeforeQuery(in_features))
                       THEN BeforeQuery(in_features)
                       ELSE BeforeQuery(in_features) \o <<"/", "0">>

\* ------------------------------------------------------- the pipeline claims

\* the destination slot columns of a table (their positions), and the position
\* of the column a call of add_metric_* adds for the slot at position i
DestSlots(t) == {i \in 1..Len(t.columns) : StartsWith(t.columns[i], destination_id_)}
AddedPos(t, i) == Len(t.columns) + Cardinality({j \in DestSlots(t) : j <= i})
OriginPos(t) == CHOOSE i \in 1..Len(t.columns) : t.columns[i] = origin_id

\* what fillna leaves of a joined value
Filled(v) == IF IsNull(v) /\ last.fill # None THEN last.fill ELSE v

\* the value looked up in rows `hits` of the second table (metric at position c)
LookedUp(v, hits, c) ==
    IF hits = {} THEN v = Filled(NaN)
    ELSE v \in {Filled(last.join_df.rows[j][c]) : j \in hits}

GrossSlots(t) == {g \in 1..Len(t.columns) : StartsWith(t.columns[g], last.fld)}
NormalizedName(gross) == n \o SubSeq(gross, Len(last.fld) + 1, Len(gross))

\* v is what the call leaves of numerator / denominator
Quotient(v, numerator, denominator) ==
    IF IsNull(numerator) \/ IsNull(denominator) \/ (numerator.n = 0 /\ denominator.n = 0)
    THEN v = Filled(NaN)
    ELSE IF denominator.n = 0 THEN v = IntVal(0)
    ELSE /\ v.k = "num"
         /\ v.n * numerator.d * denominator.n = numerator.n * denominator.d * v.d

\* C3: after add_normalized_columns_to_closest_dataframe, for every row r and
\* every closest_df column g starting with the root, the normalized column of g
\* holds r.g divided by the normalize_fld value of the normalize_df row whose id
\* equals r.origin_id (one such row for all the columns of r); a division of a
\* non-zero numerator by zero gives 0; a null result (no such row, a null
\* operand, 0/0) gives fill_na when given and null otherwise; no normalized
\* column holds an infinite value.
C3_NormalizedValues ==
    (last.op = "normalize" /\ last.ok) =>
        \A r \in 1..Len(df.rows) :
            LET origin == df.rows[r][ColIdx(df, origin_id)]
                p == CHOOSE q \in 1..Len(last.parent_df.rows) :
                        last.parent_df.rows[q][OriginPos(last.parent_df)] = origin
                hits == {j \in 1..Len(last.join_df.rows) : last.join_df.rows[j][1] = origin}
                denominators == IF hits = {} THEN {NaN}
                                ELSE {last.join_df.rows[j][2] : j \in hits}
            IN \E denominator \in denominators :
                   \A g \in GrossSlots(last.parent_df) :
                       LET name == NormalizedName(last.parent_df.columns[g]) IN
                       /\ HasCol(df, name)
                       /\ df.rows[r][ColIdx(df, name)].k # "inf"
                       /\ Quotient(df.rows[r][ColIdx(df, name)],
                                   last.parent_df.rows[p][g], denominator)

n_01 == n \o <<"_", "0", "1">>
n_02 == n \o <<"_", "0", "2">>

\* normalize_df has the origin of the row (1, -1) twice, once with 2 and once
\* with 0: one result row holds 1/2 and -1/2, the other 0 and 0; the row (0, null)
\* found no normalize row and holds the fill value twice
C3_Witness ==
    /\ last.op = "normalize" /\ last.ok /\ last.fill = IntVal(0)
    /\ last.join_in.rows = << <<StrVal(1), IntVal(2)>>, <<StrVal(1), IntVal(0)>> >>
    /\ Len(df.rows) = 3 /\ HasCol(df, n_01) /\ HasCol(df, n_02)
    /\ df.rows[1][ColIdx(df, n_01)] = NumVal(1, 2)
    /\ df.rows[1][ColIdx(df, n_02)] = NumVal(-1, 2)
    /\ df.rows[2][ColIdx(df, n_01)] = IntVal(0)
    /\ df.rows[2][ColIdx(df, n_02)] = IntVal(0)
    /\ df.rows[3][ColIdx(df, n_01)] = IntVal(0)

\* C6: add_normalized_columns_to_closest_dataframe leaves exactly the columns of
\* closest_df (less the root-prefixed ones when drop_original_columns) plus one
\* normalized column per root-prefixed column of closest_df, never the
\* denominator column, and every other column keeps its values in every row.
C6_NormalizeColumnSet ==
    (last.op = "normalize" /\ last.ok) =>
        LET gross == {last.parent_df.columns[g] : g \in GrossSlots(last.parent_df)}
            others == {c \in 1..Len(last.parent_df.columns) :
                          last.parent_df.columns[c] \notin gross}
        IN /\ Range(df.columns) =
                 (Range(last.parent_df.columns) \ (IF last.drop THEN gross ELSE {}))
                 \cup {NormalizedName(g) : g \in gross}
           /\ last.norm_fld \notin Range(df.columns)
           /\ \A r \in 1..Len(df.rows) : \E p \in 1..Len(last.parent_df.rows) :
                 \A c \in others :
                     df.rows[r][ColIdx(df, last.parent_df.columns[c])]
                         = last.parent_df.rows[p][c]

Suffix(dest_fld) == SubSeq(dest_fld, Len(destination_id_) + 1, Len(dest_fld))
Count(s, x) == Cardinality({i \in 1..Len(s) : s[i] = x})

\* one more column named <join_metric_fld>_<s> for every destination_id_<s> of
\* the parent, those columns and no other added, and none named join_metric_fld
OneColumnPerSlot ==
    /\ \A i \in DestSlots(last.parent_df) :
          LET name == last.fld \o <<"_">> \o Suffix(last.parent_df.columns[i]) IN
          Count(df.columns, name) = Count(last.parent_df.columns, name) + 1
    /\ Len(df.columns) = Len(last.parent_df.columns) + Cardinality(DestSlots(last.parent_df))
    /\ last.fld \notin Range(df.columns)

\* C7 as stated: for a destination column destination_id_<s> with any suffix s,
\* add_metric_by_origin_dest and add_metric_by_dest add exactly one column named
\* <join_metric_fld>_<s>, and no column named join_metric_fld remains.
C7_AnySuffix ==
    (last.op \in {"origin_dest", "dest"} /\ last.ok) => OneColumnPerSlot

\* C7 amended: the same for a parent table all of whose destination columns
\* are named destination_id_NN with a suffix NN of exactly two characters.
C7_TwoCharacterSuffix ==
    (/\ last.op \in {"origin_dest", "dest"} /\ last.ok
     /\ \A i \in DestSlots(last.parent_df) : Len(Suffix(last.parent_df.columns[i])) = 2)
    => OneColumnPerSlot

\* a parent with the slots 01 and 02 and no metric yet, after a call for metric k
C7_Witness ==
    /\ last.op = "dest" /\ last.ok /\ last.fld = k
    /\ last.parent_df.columns = <<origin_id, destination_id_01, destination_id_02>>
    /\ df.columns = <<origin_id, destination_id_01, destination_id_02,
                      <<"k", "_", "0", "1">>, <<"k", "_", "0", "2">> >>

\* C8: add_metric_by_dest converts the ids of join_df to the type of the
\* destination_id_NN columns, so a join_df row whose id denotes the destination
\* of a slot of a parent row is matched by it, whatever the types of origin_id,
\* of destination_id_NN and of the ids of join_df: the row is in the result with
\* that metric (or the fill value) in the column of the slot.
C8_IdTypesAligned ==
    last.op = "dest" =>
        \A p \in 1..Len(last.parent_df.rows) : \A i \in DestSlots(last.parent_df) :
            \A j \in 1..Len(last.join_in.rows) :
                last.join_in.rows[j][1].n = last.parent_df.rows[p][i].n =>
                    /\ last.ok
                    /\ \E r \in 1..Len(df.rows) :
                          /\ \A c \in 1..Len(last.parent_df.columns) :
                                df.rows[r][c] = last.parent_df.rows[p][c]
                          /\ df.rows[r][AddedPos(last.parent_df, i)]
                                = Filled(last.join_in.rows[j][2])

\* the origin and destination ids of every row, in row order
KeyNames(t) == {origin_id} \cup {t.columns[i] : i \in DestSlots(t)}
KeyRows(t, names) == [r \in 1..Len(t.rows) |-> [c \in names |-> t.rows[r][ColIdx(t, c)]]]

RowsPreserved ==
    /\ KeyNames(last.parent_df) \subseteq Range(df.columns)
    /\ KeyRows(df, KeyNames(last.parent_df))
          = KeyRows(last.parent_df, KeyNames(last.parent_df))

\* the key of a row of the second table: (origin_id, destination_id), or the id
JoinKey(j) ==
    IF last.op = "origin_dest"
    THEN <<last.join_df.rows[j][1], last.join_df.rows[j][2]>>
    ELSE <<last.join_df.rows[j][1]>>

UniqueJoinKeys ==
    \A a, b \in 1..Len(last.join_df.rows) : a # b => JoinKey(a) # JoinKey(b)

IsDistinct(s) == \A i, j \in 1..Len(s) : i # j => s[i] # s[j]

FreshOutputs(call) ==
    call.op \in {"origin_dest", "dest"} =>
        LET dest_flds == DestFldLst(call.parent_df)
            outs == [i \in 1..Len(dest_flds) |-> OutMetricFld(call.fld, dest_flds[i])]
        IN IsDistinct(outs) /\ Range(outs) \cap Range(call.parent_df.columns) = {}

====
